---- MODULE Spec2Model ----
(***************************************************************************)
(* State-machine model of the carousel of WeOtzi/tools                     *)
(* (src/src/app/components/TattooCarousel.tsx): the circular slot math,    *)
(* the pointer-driven drag engine with its momentum loop, the index       *)
(* navigation of the controller, the breakpoint resolver and the timed     *)
(* theme transition overlay.                                               *)
(*                                                                         *)
(* Numbers.  Pointer coordinates are whole CSS pixels.  dragX, velocity    *)
(* and the offset/velocity of a momentum loop are JavaScript doubles in    *)
(* the source; here they are fixed-point integers counted in 1/Scale px,   *)
(* and a product with the friction 0.93 is truncated toward zero.          *)
(* Every React handler is one action: the state updates it queues, the     *)
(* re-render and the effects that re-render runs are part of the action.   *)
(***************************************************************************)
EXTENDS Integers, FiniteSets, Sequences, TLC

\* ------------------------------------------------------------------ bounds
\* Largest number of cards the configuration supplies (config.cards).
MaxItems == 3

\* Pointer x coordinates (clientX, px) the events are drawn from.
PointerXs == {0, 3, 80}
\* Milliseconds between two pointer samples (performance.now() differences).
DtSet == {0, 16}
\* Viewport widths a resize can produce (both sides of each breakpoint).
Widths == {639, 640, 1179, 1180}
\* Longest time (ms) a theme transition is followed after its trigger.
MaxAge == 2000
\* Largest item count for which the slot layout is also computed directly.
SlotCheckMax == 6

\* ------------------------------------------------------- program constants
Scale == 1000
Deadzone == 5
FrictionPct == 93
SnapPct == 35
SlowPct == 25
FastVel == 2
StopVelTenths == 4
\* setTimeout(..., 350) and setTimeout(onComplete, 1600) of the overlay
FlipDelay == 350
CompleteDelay == 1600
\* Time passes in steps of Quantum ms (both delays are multiples of it).
Quantum == 50

\* --------------------------------------------------------------- arithmetic
Abs(x) == IF x < 0 THEN -x ELSE x

\* Division truncated toward zero (the fixed-point image of a double product).
TruncDiv(a, b) == IF a >= 0 THEN a \div b ELSE -((-a) \div b)

\* JavaScript's % : the remainder has the sign of the dividend.
JsRem(a, n) == IF a >= 0 THEN a % n ELSE -((-a) % n)

\* Math.round of num/den (den > 0): the nearest integer, halves toward +infinity.
MathRound(num, den) == (2 * num + den) \div (2 * den)

\* Variant: the wrap without the "+ N" that lifts a negative remainder.
WrapIndexNoFix(next, n) == JsRem(next, n)

\* ((next % N) + N) % N
WrapIndex(next, n) == JsRem(JsRem(next, n) + n, n)

\* -------------------------------------------------------------- breakpoints
\* Variant: the lower classification takes the boundary width.
getBreakpointInclusive(w) ==
    IF w <= 640 THEN "mobile" ELSE IF w <= 1180 THEN "tablet" ELSE "desktop"

getBreakpoint(w) == IF w < 640 THEN "mobile" ELSE IF w < 1180 THEN "tablet" ELSE "desktop"

SideOffset(b) == IF b = "mobile" THEN 220 ELSE IF b = "tablet" THEN 270 ELSE 340

\* Variant: the raw difference, with no wrap-around.
getSlotNoWrap(i, active, n) == i - active

\* ---------------------------------------------------------------- slot math
getSlot(i, active, n) ==
    LET d0 == i - active
        d1 == IF 2 * d0 > n THEN d0 - n ELSE d0
        d2 == IF 2 * d1 < -n THEN d1 + n ELSE d1
    IN  d2

\* farOffset of useLayoutConfig
FarOffset(b) == IF b = "mobile" THEN 400 ELSE IF b = "tablet" THEN 500 ELSE 640

\* Variant: both neighbour slots placed on the right.
slotPropsOneSided(slot, so, far) ==
    IF slot = 0 THEN [x |-> 0, opacity |-> 100, z |-> 20]
    ELSE IF slot = -1 THEN [x |-> so, opacity |-> 40, z |-> 10]
    ELSE IF slot = 1 THEN [x |-> so, opacity |-> 40, z |-> 10]
    ELSE [x |-> (IF slot < 0 THEN -1 ELSE 1) * far, opacity |-> 0, z |-> 1]

\* slotProps(slot, layout): the x offset (px), the opacity (percent) and the
\* z-index of a card; so and far are layout.sideOffset and layout.farOffset.
slotProps(slot, so, far) ==
    IF slot = 0 THEN [x |-> 0, opacity |-> 100, z |-> 20]
    ELSE IF slot = -1 THEN [x |-> -so, opacity |-> 40, z |-> 10]
    ELSE IF slot = 1 THEN [x |-> so, opacity |-> 40, z |-> 10]
    ELSE [x |-> (IF slot < 0 THEN -1 ELSE 1) * far, opacity |-> 0, z |-> 1]

\* ------------------------------------------------------------ drag engine
\* Variant: a pointer-down with any button starts a drag.
StartsDragAnyButton(onLink, button) == ~onLink

\* handlePointerDown goes on past its two early returns: the target is not
\* inside a button or a link, and the primary button went down.
StartsDrag(onLink, button) == ~onLink /\ button = 0

\* Variant: every move counts as a drag (no deadzone).
CrossesDeadzoneAnyMove(totalDX) == Abs(totalDX) > 0

\* Math.abs(totalDX) > 5
CrossesDeadzone(totalDX) == Abs(totalDX) > Deadzone

\* velocity.current = (dx / dt) * 16, dx in px, dt in ms, result in 1/Scale px
SampleVelocity(dx, dt) == TruncDiv(dx * 16 * Scale, dt)

\* Variant: a sample with no elapsed time zeroes the velocity.
VelocitySampleZeroOnStall(dx, dt, vel) == IF dt > 0 THEN SampleVelocity(dx, dt) ELSE 0

\* if (dt > 0) velocity.current = (dx / dt) * 16: the velocity after a sample
VelocitySample(dx, dt, vel) == IF dt > 0 THEN SampleVelocity(dx, dt) ELSE vel

\* Variant: every captured release starts the momentum loop.
IsFastAlways(vel) == TRUE

\* Math.abs(vel) > 2
IsFast(vel) == Abs(vel) > FastVel * Scale

\* vel *= friction
ApplyFriction(vel) == TruncDiv(vel * FrictionPct, 100)

\* Math.abs(offset) > sideOffset * 0.35
ExceedsSnap(offset, so) == 100 * Abs(offset) > SnapPct * so * Scale

\* Math.abs(x) > sideOffset * 0.25
ExceedsQuarter(x, so) == 100 * Abs(x) > SlowPct * so * Scale

\* Math.abs(vel) < 0.4
VelocityDied(vel) == 10 * Abs(vel) < StopVelTenths * Scale

\* Variant: the step count truncated instead of rounded.
SnapStepsTruncated(offset, so) == TruncDiv(-offset, so * Scale)

\* Math.round(-offset / sideOffset)
SnapSteps(offset, so) == MathRound(-offset, so * Scale)

\* const dir = x < 0 ? 1 : -1
DirOf(x) == IF x < 0 THEN 1 ELSE -1

VARIABLES
    status,       \* "mounted" | "error": whether the carousel rendered
    itemsLen,     \* config.cards.length
    activeIndex,  \* useState(0)
    slots,        \* the slot each card got in the last render
    videoModal,   \* a video overlay is open
    bp,           \* useBreakpoint state
    dragX,        \* useState(0) of the drag engine, 1/Scale px
    dragXRef,     \* dragXRef.current
    dragging,     \* dragging.current
    captured,     \* captured.current
    startX,       \* startX.current, px
    lastX,        \* lastX.current, px
    velocity,     \* velocity.current, 1/Scale px per 16 ms
    rafId,        \* rafId.current (0 = none)
    frames,       \* animation frames requested and not yet run or cancelled
    hasCapture,   \* the surface holds the pointer capture
    crossed,      \* history: a move of the current gesture exceeded the deadzone
    last,         \* history: the last handler that ran and what it saw
    resolvedTheme,   \* useTheme().resolvedTheme, the persisted mode
    themeTransition, \* useState<ThemeTransitionState>: "null" or the targetTheme
    overlays,        \* the mounted ThemeTransitionOverlay instances (their keys)
    hasFlipped,      \* hasFlipped.current of the overlay
    timers,          \* pending setTimeout callbacks of the overlay's effect
    tlog,            \* history of the transition triggered last
    keyListeners,    \* keydown listeners of the carousel registered on window
    resizeListeners, \* resize listeners of useBreakpoint registered on window
    isNudging,       \* useState(false) of the idle nudge
    hasClicked,      \* hasClickedRef.current
    nudgeInterval,   \* the 30 s setInterval of the nudge effect is registered
    nudgeTimeouts,   \* pending 2 s timeouts that end a nudge
    staleTimeouts,   \* pending 2 s timeouts of instances that have unmounted
    dragOwner,       \* history: the pointer whose pointer-down started the
                     \* drag in progress (0: no drag)
    eventPointer,    \* history: the pointer of the last pointer event handled
    cfgCards,        \* ConfigPage: local.cards, each with its id and its bg
    pendingImages,   \* ConfigPage: pendingImages, by the index in card_bg_<index>
    nextCardId,      \* the id Date.now() gives the next added card
    cfgDirty         \* local differs from what config.json holds

vars == <<status, itemsLen, activeIndex, slots, videoModal, bp, dragX, dragXRef,
          dragging, captured, startX, lastX, velocity, rafId, frames, hasCapture,
          crossed, last, resolvedTheme, themeTransition, overlays, hasFlipped,
          timers, tlog, keyListeners, resizeListeners, isNudging, hasClicked,
          nudgeInterval, nudgeTimeouts, staleTimeouts, dragOwner, eventPointer,
          cfgCards, pendingImages, nextCardId, cfgDirty>>

\* the theme state other than the pending timers
themeState == <<resolvedTheme, themeTransition, overlays, hasFlipped, tlog>>

\* the listeners the carousel keeps on window
windowState == <<keyListeners, resizeListeners>>

\* the idle nudge of the header
nudgeState == <<isNudging, hasClicked, nudgeInterval, nudgeTimeouts, staleTimeouts>>

\* which pointer the drag engine is following
pointerState == <<dragOwner, eventPointer>>

\* the admin page
adminState == <<cfgCards, pendingImages, nextCardId, cfgDirty>>

\* geoIcons has one icon component per default card
GeoIconCount == 4

\* What rendering a card list of n items gives: no items throw in the modulo
\* arithmetic's consumers, and a card whose index has no entry in geoIcons
\* renders <undefined />, which throws; nothing catches either.
RenderOutcome(n) == IF n = 0 \/ n > GeoIconCount THEN "error" ELSE "mounted"

\* a card of the configuration: bg is 0 for the background the configuration
\* names, or the id of the card a picture was chosen for
Card(id, bg) == [id |-> id, bg |-> bg]

\* Variant: the item count taken as it comes, without the guard for no items.
NUnguarded == itemsLen

\* const N = items.length > 0 ? items.length : 1
N == IF itemsLen > 0 THEN itemsLen ELSE 1

sideOffset == SideOffset(bp)

farOffset == FarOffset(bp)

\* the animation props each CarouselCard takes from its slot in the last render
cardProps == [i \in DOMAIN slots |-> slotProps(slots[i], sideOffset, farOffset)]

\* What a handler of the drag engine or of the navigation leaves in `last`
\* when it changed something: its name, the
\* activeIndex before it ran and whether dragX was non-zero then, the
\* displacement or offset and the sideOffset it decided on, and (near) whether
\* the release behind it ended within the deadzone of its start point.
\* For a pointer-down that started a drag, so and near are e.button and
\* whether the target was inside a button or a link; for a pointer-move, so is
\* the time in ms since the sample before.
\* A handler that returns early, or whose state update changes nothing,
\* leaves every variable as it is.
Ev(op, off, so, near) ==
    [op |-> op, idx |-> activeIndex, resid |-> (dragX # 0), off |-> off, so |-> so,
     near |-> near]

\* window.addEventListener(type, h) with a handler not yet registered
AddListener(n) == n + 1

\* window.removeEventListener(type, h) with the handler the effect registered
RemoveListener(n) == IF n > 0 THEN n - 1 ELSE 0

\* Variant: the keydown effect without its cleanup.
RerunKeydownEffectNoCleanup(n) == AddListener(n)

\* The keydown effect runs again because a dependency (next, prev, videoModal)
\* changed: its cleanup removes the old handler, its body adds the new one.
RerunKeydownEffect(n) == AddListener(RemoveListener(n))

\* items.map((item, i) => getSlot(i, activeIndex, N)) of a render
RenderSlots(idx) == [i \in 0 .. (itemsLen - 1) |-> getSlot(i, idx, N)]

\* requestAnimationFrame: an id no pending frame has
FreshId(fs) == CHOOSE k \in 1 .. (Cardinality(fs) + 1) : \A f \in fs : f.id # k

\* cancelAnimationFrame(id)
CancelFrame(fs, id) == {f \in fs : f.id # id}

\* Variant: cancelMomentum forgets to cancel the frame.
CancelMomentumKeepsFrame(fs, raf) == fs

\* cancelMomentum: the frames left pending
CancelMomentum(fs, raf) == IF raf # 0 THEN CancelFrame(fs, raf) ELSE fs

\* The overlay's effect body: the two timeouts it sets for targetTheme tt.
EffectTimers(tt) ==
    {[kind |-> "flip", left |-> FlipDelay, target |-> tt],
     [kind |-> "cleanup", left |-> CompleteDelay, target |-> tt]}

\* A render of TattooCarousel passes a new onComplete closure to the mounted
\* overlay, so the overlay's effect is cleaned up (both timeouts cleared) and
\* run again; without an overlay nothing happens to the timers.
RerenderOverlay ==
    IF overlays # <<>> /\ themeTransition # "null"
      THEN EffectTimers(themeTransition)
      ELSE timers

\* Variant: a render without the effect keyed on activeIndex.
CommitWithoutIndexEffect(idx, dx, raf, fs) ==
    /\ activeIndex' = idx
    /\ slots' = [i \in 0 .. (itemsLen - 1) |-> getSlot(i, idx, N)]
    /\ dragX' = dx
    /\ dragXRef' = dx
    /\ rafId' = raf
    /\ frames' = fs
    /\ timers' = timers

\* The commit of a render: the card slots, and the effects keyed on dragX and on
\* activeIndex.  idx, dx, raf, fs are the values the handler leaves; when the
\* index changed the effect sets dragX to 0 and cancels the pending frame.
Commit(idx, dx, raf, fs) ==
    /\ activeIndex' = idx
    /\ slots' = RenderSlots(idx)
    /\ IF idx # activeIndex
         THEN /\ dragX' = 0
              /\ dragXRef' = 0
              /\ rafId' = 0
              /\ frames' = CancelMomentum(fs, raf)
         ELSE /\ dragX' = dx
              /\ dragXRef' = dx
              /\ rafId' = raf
              /\ frames' = fs
    /\ timers' = IF idx # activeIndex \/ dx # dragX THEN RerenderOverlay ELSE timers

\* the history of a transition: ms since its trigger, the number of setTheme
\* calls and of onComplete calls, and the age at which each came (-1: not yet)
NoTransitionLog ==
    [started |-> FALSE, target |-> "null", age |-> 0, flips |-> 0, flipAt |-> -1,
     completions |-> 0, doneAt |-> -1, retriggered |-> FALSE]

\* The first render.  The persisted mode starts as light; the dark start is
\* the state a completed transition leaves.
Init ==
    /\ itemsLen \in 0 .. MaxItems
    /\ status = RenderOutcome(itemsLen)
    /\ activeIndex = 0
    /\ slots = RenderSlots(0)
    /\ videoModal = FALSE
    /\ bp \in {getBreakpoint(w) : w \in Widths}
    /\ dragX = 0
    /\ dragXRef = 0
    /\ dragging = FALSE
    /\ captured = FALSE
    /\ startX = 0
    /\ lastX = 0
    /\ velocity = 0
    /\ rafId = 0
    /\ frames = {}
    /\ hasCapture = FALSE
    /\ crossed = FALSE
    /\ last = [op |-> "init", idx |-> 0, resid |-> FALSE, off |-> 0, so |-> 0,
               near |-> FALSE]
    /\ resolvedTheme = "light"
    /\ themeTransition = "null"
    /\ overlays = <<>>
    /\ hasFlipped = FALSE
    /\ timers = {}
    /\ tlog = NoTransitionLog
    /\ keyListeners = IF itemsLen = 0 THEN 0 ELSE AddListener(0)
    /\ resizeListeners = IF itemsLen = 0 THEN 0 ELSE AddListener(0)
    /\ isNudging = FALSE
    /\ hasClicked = FALSE
    /\ nudgeInterval = (itemsLen # 0)
    /\ nudgeTimeouts = 0
    /\ staleTimeouts = 0
    /\ dragOwner = 0
    /\ eventPointer = 1
    /\ cfgCards = [i \in 1 .. itemsLen |-> Card(i, 0)]
    /\ pendingImages = [k \in {} |-> 0]
    /\ nextCardId = itemsLen + 1
    /\ cfgDirty = FALSE

\* ----------------------------------------------------------- navigation
\* next: setActiveIndex((p) => (p + 1) % N)
NextIndex(p) == (p + 1) % N
\* prev: setActiveIndex((p) => (p - 1 + N) % N)
PrevIndex(p) == (p - 1 + N) % N

\* setActiveIndex(idx) from a click or a key: React re-renders only when the
\* value differs.
Navigate(op, idx) ==
    IF idx = activeIndex
      THEN UNCHANGED vars
      ELSE /\ Commit(idx, dragX, rafId, frames)
           /\ last' = Ev(op, 0, 0, FALSE)
           /\ UNCHANGED <<status, itemsLen, videoModal, bp, dragging, captured,
                          startX, lastX, velocity, hasCapture, crossed>>
           /\ UNCHANGED <<themeState, windowState, nudgeState, pointerState, adminState>>

\* Variant: the keydown listener without its videoModal test.
KeyTargetDuringVideo(key) ==
    IF key = "ArrowLeft" THEN PrevIndex(activeIndex)
    ELSE IF key = "ArrowRight" THEN NextIndex(activeIndex)
    ELSE activeIndex

\* the index the keydown listener h sets for a key
KeyTarget(key) ==
    IF videoModal THEN activeIndex
    ELSE IF key = "ArrowLeft" THEN PrevIndex(activeIndex)
    ELSE IF key = "ArrowRight" THEN NextIndex(activeIndex)
    ELSE activeIndex

\* The index after every registered keydown listener handled the key: each
\* runs h, whose setActiveIndex updates are functional and add up.
KeyDispatch(key, k) == (activeIndex + k * (KeyTarget(key) - activeIndex)) % N

\* a keydown event on window, delivered to the registered listeners
KeyDown ==
    /\ status = "mounted"
    /\ keyListeners > 0
    /\ \E key \in {"ArrowLeft", "ArrowRight", "Enter"} :
         Navigate(IF key = "ArrowLeft" THEN "key-left" ELSE "key-right",
                  KeyDispatch(key, keyListeners))

\* The video overlay is fixed, covers the viewport and lies above the carousel:
\* while it is open no click and no pointer-down reaches the carousel.

\* the Previous / Next buttons, rendered unless the breakpoint is mobile
ArrowClick ==
    /\ status = "mounted"
    /\ ~videoModal
    /\ bp # "mobile"
    /\ \E fwd \in BOOLEAN :
         Navigate("arrow", IF fwd THEN NextIndex(activeIndex) ELSE PrevIndex(activeIndex))

\* Variant: the card handlers with prev and next exchanged.
CardTargetSwapped(slot, p, n) ==
    IF slot = -1 THEN (p + 1) % n
    ELSE IF slot = 1 THEN (p - 1 + n) % n
    ELSE p

\* the index a card's onClick leaves, from the card's slot: slot -1 calls
\* prev, slot +1 calls next, every other slot has no handler
CardTarget(slot, p, n) ==
    IF slot = -1 THEN (p - 1 + n) % n
    ELSE IF slot = 1 THEN (p + 1) % n
    ELSE p

\* a card's onClick
CardClick ==
    /\ status = "mounted"
    /\ ~videoModal
    /\ \E i \in 0 .. (itemsLen - 1) :
         Navigate("card", CardTarget(slots[i], activeIndex, N))

\* a pagination dot: setActiveIndex(i)
PaginationClick ==
    /\ status = "mounted"
    /\ ~videoModal
    /\ \E i \in 0 .. (itemsLen - 1) : Navigate("page", i)

\* a card's play button: setVideoModal(item.videoId)
OpenVideo ==
    /\ status = "mounted"
    /\ ~videoModal
    /\ videoModal' = TRUE
    /\ timers' = RerenderOverlay
    /\ keyListeners' = RerunKeydownEffect(keyListeners)
    /\ UNCHANGED <<themeState, resizeListeners, nudgeState, pointerState,
                   adminState>>
    /\ UNCHANGED <<last, status, itemsLen, activeIndex, slots, bp, dragX, dragXRef, dragging,
                   captured, startX, lastX, velocity, rafId, frames, hasCapture, crossed>>

\* the overlay's onClose: setVideoModal(null)
CloseVideo ==
    /\ status = "mounted"
    /\ videoModal
    /\ videoModal' = FALSE
    /\ timers' = RerenderOverlay
    /\ keyListeners' = RerunKeydownEffect(keyListeners)
    /\ UNCHANGED <<themeState, resizeListeners, nudgeState, pointerState,
                   adminState>>
    /\ UNCHANGED <<last, status, itemsLen, activeIndex, slots, bp, dragX, dragXRef, dragging,
                   captured, startX, lastX, velocity, rafId, frames, hasCapture, crossed>>

\* window resize listener: setBp(getBreakpoint()), w = window.innerWidth.
\* The history keeps the width; only a changed breakpoint re-renders.
Resize ==
    /\ status = "mounted"
    /\ resizeListeners > 0
    /\ \E w \in Widths :
         /\ bp' = getBreakpoint(w)
         /\ last' = Ev("resize", w, 0, FALSE)
         /\ timers' = IF getBreakpoint(w) # bp THEN RerenderOverlay ELSE timers
         /\ UNCHANGED <<themeState, windowState, nudgeState, pointerState, adminState>>
         /\ UNCHANGED <<status, itemsLen, activeIndex, slots, videoModal,
                        dragX, dragXRef, dragging, captured, startX, lastX,
                        velocity, rafId, frames, hasCapture, crossed>>

\* ------------------------------------------------------------ pointer events
\* handlePointerDown.  onLink: the target is inside a button or a link;
\* button: e.button; p: the pointer the event belongs to, which the handler
\* does not read.  The history keeps the number of frames the handler found
\* pending.
HandlePointerDown(x, onLink, button, p) ==
    IF ~StartsDrag(onLink, button)
      THEN UNCHANGED vars
      ELSE /\ rafId' = 0
           /\ frames' = CancelMomentum(frames, rafId)
           /\ dragging' = TRUE
           /\ captured' = FALSE
           /\ startX' = x
           /\ lastX' = x
           /\ velocity' = 0
           /\ crossed' = FALSE
           /\ last' = Ev("down", Cardinality(frames), button, onLink)
           /\ dragOwner' = p
           /\ eventPointer' = p
           /\ UNCHANGED <<themeState, timers, windowState, nudgeState, adminState>>
           /\ UNCHANGED <<status, itemsLen, activeIndex, slots, videoModal, bp,
                          dragX, dragXRef, hasCapture>>

\* a pointer-down of the primary pointer
PointerDown ==
    /\ status = "mounted"
    /\ ~videoModal
    /\ \E x \in PointerXs, onLink \in BOOLEAN, button \in {0, 2} :
         HandlePointerDown(x, onLink, button, 1)

\* handlePointerDown during a coast for a pointer-down on a button or a link
\* of the surface (a card's play button, an arrow, a pagination dot) or with a
\* secondary button: the early returns of the handler, which change nothing;
\* here the history remembers that the pointer-down happened.
PointerDownOnControl ==
    /\ status = "mounted"
    /\ ~videoModal
    /\ frames # {}
    /\ \E onLink \in BOOLEAN, button \in {0, 2} :
         /\ ~StartsDrag(onLink, button)
         /\ last' = Ev("down-ignored", Cardinality(frames), 0, FALSE)
         /\ UNCHANGED <<themeState, timers, windowState, nudgeState, pointerState, adminState>>
         /\ UNCHANGED <<status, itemsLen, activeIndex, slots, videoModal, bp, dragX,
                        dragXRef, dragging, captured, startX, lastX, velocity, rafId,
                        frames, hasCapture, crossed>>

\* handlePointerMove.  dt: ms since the last sample; throws: setPointerCapture
\* raised (the exception is swallowed and the capture is not acquired); p: the
\* pointer the event belongs to, which the handler does not read.
HandlePointerMove(x, dt, throws, p) ==
    LET totalDX == x - startX
        acquire == ~captured /\ CrossesDeadzone(totalDX)
        cap     == captured \/ acquire
    IN  IF ~dragging
          THEN UNCHANGED vars
          ELSE /\ crossed' = (crossed \/ Abs(totalDX) > Deadzone)
               /\ captured' = cap
               /\ hasCapture' = IF acquire /\ ~throws THEN TRUE ELSE hasCapture
               /\ eventPointer' = p
               /\ UNCHANGED <<themeState, windowState, nudgeState, dragOwner, adminState>>
               /\ IF ~cap
                    THEN UNCHANGED <<velocity, lastX, dragX, dragXRef, last, timers>>
                    ELSE /\ timers' = IF totalDX * Scale # dragX THEN RerenderOverlay
                                      ELSE timers
                         /\ velocity' = VelocitySample(x - lastX, dt, velocity)
                         /\ lastX' = x
                         /\ dragX' = totalDX * Scale
                         /\ dragXRef' = totalDX * Scale
                         /\ last' = Ev("move", totalDX, dt, FALSE)
               /\ UNCHANGED <<status, itemsLen, activeIndex, slots, videoModal,
                              bp, dragging, startX, rafId, frames>>

\* a pointer-move of the primary pointer
PointerMove ==
    /\ status = "mounted"
    /\ \E x \in PointerXs, dt \in DtSet, throws \in BOOLEAN :
         HandlePointerMove(x, dt, throws, 1)

\* startMomentum(initialVel): the frame it requests, with the closure of tick
\* (vel, offset, and the sideOffset of the render that created the callback);
\* near is history: the release that started the loop ended within the
\* deadzone of the gesture's start point.
MomentumFrame(id, vel, offset, so, near) ==
    [id |-> id, vel |-> vel, offset |-> offset, so |-> so, near |-> near]

\* Variant: the step of a slow release taken against the drag's direction.
SlowReleaseFlipped(idx, totalDX, so) ==
    IF 100 * Abs(totalDX * Scale) > SlowPct * so * Scale
      THEN JsRem(JsRem(idx - DirOf(totalDX), N) + N, N)
      ELSE idx

\* the index a slow release leaves: one step when the displacement exceeds a
\* quarter of sideOffset
SlowRelease(idx, totalDX, so) ==
    IF ExceedsQuarter(totalDX * Scale, so) THEN WrapIndex(idx + DirOf(totalDX), N)
    ELSE idx

\* handlePointerUp, also bound to onPointerCancel; p: the pointer the event
\* belongs to, which the handler does not read
HandlePointerUp(x, p) ==
    LET totalDX == x - startX
        vel     == velocity
        near    == Abs(totalDX) <= Deadzone
        id      == FreshId(frames)
    IN  IF ~dragging
          THEN UNCHANGED vars
          ELSE /\ dragging' = FALSE
               /\ hasCapture' = IF captured THEN FALSE ELSE hasCapture
               /\ IF ~captured
                    THEN /\ Commit(activeIndex, 0, rafId, frames)
                         /\ last' = Ev("up-tap", totalDX, sideOffset, near)
                    ELSE IF IsFast(vel)
                    THEN /\ Commit(activeIndex, dragX, id,
                                   frames \cup {MomentumFrame(id, vel, dragXRef,
                                                              sideOffset, near)})
                         /\ last' = Ev("up-fast", totalDX, sideOffset, near)
                    ELSE /\ Commit(SlowRelease(activeIndex, totalDX, sideOffset),
                                   0, rafId, frames)
                         /\ last' = Ev("up-slow", totalDX, sideOffset, near)
               /\ dragOwner' = 0
               /\ eventPointer' = p
               /\ UNCHANGED <<status, itemsLen, videoModal, bp, captured, startX,
                              lastX, velocity, crossed>>
               /\ UNCHANGED <<themeState, windowState, nudgeState, adminState>>

PointerUp ==
    /\ status = "mounted"
    /\ \E x \in PointerXs : HandlePointerUp(x, 1)

PointerCancel ==
    /\ status = "mounted"
    /\ \E x \in PointerXs : HandlePointerUp(x, 1)

\* ------------------------------------------------------------ momentum loop
\* the index the snap branch of tick leaves
SnapIndex(idx, offset, so) ==
    LET steps == SnapSteps(offset, so)
    IN  IF steps # 0 THEN WrapIndex(idx + steps, N) ELSE idx

\* Variant: the velocity-died branch tests the 35% threshold again.
DiedIndexSnapThreshold(idx, offset, so) ==
    IF ExceedsSnap(offset, so) THEN WrapIndex(idx + DirOf(offset), N) ELSE idx

\* the index the velocity-died branch of tick leaves
DiedIndex(idx, offset, so) ==
    IF ExceedsQuarter(offset, so) THEN WrapIndex(idx + DirOf(offset), N) ELSE idx

\* Variant: the velocity-died branch returns without setDragX(0).
TickResultKeepsOffset(f, idx) ==
    LET vel    == ApplyFriction(f.vel)
        offset == f.offset + vel
    IN  IF ExceedsSnap(offset, f.so)
          THEN [kind |-> "tick-snap", idx |-> SnapIndex(idx, offset, f.so), dragX |-> 0,
                vel |-> vel, offset |-> offset, again |-> FALSE]
          ELSE IF VelocityDied(vel)
          THEN [kind |-> "tick-died", idx |-> DiedIndex(idx, offset, f.so),
                dragX |-> offset, vel |-> vel, offset |-> offset, again |-> FALSE]
          ELSE [kind |-> "tick-run", idx |-> idx, dragX |-> offset,
                vel |-> vel, offset |-> offset, again |-> TRUE]

\* Variant: the loop has no velocity stop; only the 35% threshold ends it.
TickResultNeverDies(f, idx) ==
    LET vel    == ApplyFriction(f.vel)
        offset == f.offset + vel
    IN  IF ExceedsSnap(offset, f.so)
          THEN [kind |-> "tick-snap", idx |-> SnapIndex(idx, offset, f.so), dragX |-> 0,
                vel |-> vel, offset |-> offset, again |-> FALSE]
          ELSE [kind |-> "tick-run", idx |-> idx, dragX |-> offset,
                vel |-> vel, offset |-> offset, again |-> TRUE]

\* The body of tick for the closure (vel, offset, so) of frame f, run when the
\* index is idx: which branch returned, the index and dragX it sets, the
\* closure it leaves, and whether it requested another frame.
TickResult(f, idx) ==
    LET vel    == ApplyFriction(f.vel)
        offset == f.offset + vel
    IN  IF ExceedsSnap(offset, f.so)
          THEN [kind |-> "tick-snap", idx |-> SnapIndex(idx, offset, f.so), dragX |-> 0,
                vel |-> vel, offset |-> offset, again |-> FALSE]
          ELSE IF VelocityDied(vel)
          THEN [kind |-> "tick-died", idx |-> DiedIndex(idx, offset, f.so), dragX |-> 0,
                vel |-> vel, offset |-> offset, again |-> FALSE]
          ELSE [kind |-> "tick-run", idx |-> idx, dragX |-> offset,
                vel |-> vel, offset |-> offset, again |-> TRUE]

\* One run of tick, the callback of a pending animation frame.
Tick ==
    /\ status = "mounted"
    /\ \E f \in frames :
         LET r    == TickResult(f, activeIndex)
             rest == frames \ {f}
             id   == FreshId(rest)
         IN  /\ IF r.again
                  THEN Commit(r.idx, r.dragX, id,
                              rest \cup {MomentumFrame(id, r.vel, r.offset, f.so, f.near)})
                  ELSE Commit(r.idx, r.dragX, rafId, rest)
             /\ velocity' = IF r.kind = "tick-snap" THEN 0 ELSE velocity
             /\ last' = Ev(r.kind, r.offset, f.so, f.near)
             /\ UNCHANGED <<status, itemsLen, videoModal, bp, dragging, captured,
                            startX, lastX, hasCapture, crossed>>
             /\ UNCHANGED <<themeState, windowState, nudgeState, pointerState, adminState>>

\* ------------------------------------------------------------ theme transition
carouselVars == <<status, itemsLen, activeIndex, slots, videoModal, bp, dragX,
                  dragXRef, dragging, captured, startX, lastX, velocity, rafId,
                  frames, hasCapture, crossed, last, keyListeners,
                  resizeListeners, isNudging, hasClicked, nudgeInterval,
                  nudgeTimeouts, staleTimeouts, dragOwner, eventPointer>>

\* Variant: the overlay is rendered without its key, a new instance per state.
RenderOverlayUnkeyed(ovs, tt) ==
    IF tt = "null" THEN <<>> ELSE Append(ovs, "theme-transition")

\* {themeTransition && <ThemeTransitionOverlay key="theme-transition" .../>}:
\* the overlay instances after a render with themeTransition = tt
RenderOverlay(ovs, tt) ==
    IF tt = "null" THEN <<>>
    ELSE IF ovs = <<>> THEN <<"theme-transition">>
    ELSE ovs

\* triggerThemeSwitch, the onClick of the theme toggles: a new
\* ThemeTransitionState whose target is the mode that is not active; the
\* render mounts the overlay (or keeps the mounted one) and runs its effect.
TriggerThemeSwitch ==
    /\ status = "mounted"
    /\ ~videoModal
    /\ LET tt == IF resolvedTheme = "dark" THEN "light" ELSE "dark"
       IN  /\ themeTransition' = tt
           /\ overlays' = RenderOverlay(overlays, tt)
           /\ hasFlipped' = IF overlays = <<>> THEN FALSE ELSE hasFlipped
           /\ timers' = EffectTimers(tt)
           /\ tlog' = [started |-> TRUE, target |-> tt, age |-> 0, flips |-> 0,
                       flipAt |-> -1, completions |-> 0, doneAt |-> -1,
                       retriggered |-> (themeTransition # "null")]
    /\ UNCHANGED <<resolvedTheme, carouselVars, adminState>>

\* The flip timeout fires: setTheme(targetTheme) unless hasFlipped.current.
\* A theme change re-renders TattooCarousel (useTheme), which re-runs the
\* effect of the mounted overlay.
FlipTimer ==
    /\ \E t \in timers :
         /\ t.kind = "flip"
         /\ t.left = 0
         /\ LET calls   == ~hasFlipped
                changed == calls /\ resolvedTheme # t.target
            IN  /\ hasFlipped' = TRUE
                /\ resolvedTheme' = IF calls THEN t.target ELSE resolvedTheme
                /\ timers' = IF changed /\ status = "mounted" /\ overlays # <<>>
                                   /\ themeTransition # "null"
                               THEN EffectTimers(themeTransition)
                               ELSE timers \ {t}
                /\ tlog' = IF calls
                             THEN [tlog EXCEPT !.flips = @ + 1, !.flipAt = tlog.age]
                             ELSE tlog
    /\ UNCHANGED <<themeTransition, overlays, carouselVars, adminState>>

\* The cleanup timeout fires: onComplete() = setThemeTransition(null); the
\* render unmounts the overlay, whose effect cleanup clears its timeouts.
CompleteTimer ==
    /\ \E t \in timers :
         /\ t.kind = "cleanup"
         /\ t.left = 0
         /\ tlog' = [tlog EXCEPT !.completions = @ + 1, !.doneAt = tlog.age]
         /\ IF status = "mounted" /\ themeTransition # "null"
              THEN /\ themeTransition' = "null"
                   /\ overlays' = RenderOverlay(overlays, "null")
                   /\ timers' = {}
              ELSE /\ timers' = timers \ {t}
                   /\ UNCHANGED <<themeTransition, overlays>>
    /\ UNCHANGED <<resolvedTheme, hasFlipped, carouselVars, adminState>>

\* Quantum ms pass while a transition is followed; a timeout that is due
\* fires before more time passes.
Advance ==
    /\ timers # {} \/ (tlog.started /\ tlog.doneAt = -1)
    /\ tlog.age + Quantum <= MaxAge
    /\ \A t \in timers : t.left >= Quantum
    /\ timers' = {[t EXCEPT !.left = @ - Quantum] : t \in timers}
    /\ tlog' = [tlog EXCEPT !.age = @ + Quantum]
    /\ UNCHANGED <<resolvedTheme, themeTransition, overlays, hasFlipped, carouselVars, adminState>>

\* Time passes after the window in which a transition's age is recorded: the
\* pending timeouts come Quantum ms closer, the history keeps its last age.
AdvanceLate ==
    /\ timers # {}
    /\ tlog.age + Quantum > MaxAge
    /\ \A t \in timers : t.left >= Quantum
    /\ timers' = {[t EXCEPT !.left = @ - Quantum] : t \in timers}
    /\ UNCHANGED <<resolvedTheme, themeTransition, overlays, hasFlipped, tlog,
                   carouselVars, adminState>>

\* Variant: the unmount without the drag engine's cleanup (cancelMomentum).
UnmountCarouselKeepsFrame ==
    /\ status = "mounted"
    /\ status' = "unmounted"
    /\ themeTransition' = "null"
    /\ overlays' = <<>>
    /\ timers' = {}
    /\ keyListeners' = RemoveListener(keyListeners)
    /\ resizeListeners' = RemoveListener(resizeListeners)
    /\ nudgeInterval' = FALSE
    /\ nudgeTimeouts' = 0
    /\ staleTimeouts' = staleTimeouts + nudgeTimeouts
    /\ UNCHANGED <<pointerState, adminState>>
    /\ UNCHANGED <<resolvedTheme, hasFlipped, tlog, itemsLen, activeIndex, slots,
                   videoModal, bp, dragX, dragXRef, dragging, captured, startX, lastX,
                   velocity, hasCapture, crossed, last, isNudging, hasClicked,
                   rafId, frames>>

\* Variant: the carousel unmounts and the overlay's timeouts stay pending.
UnmountCarouselKeepsTimers ==
    /\ status = "mounted"
    /\ status' = "unmounted"
    /\ themeTransition' = "null"
    /\ overlays' = <<>>
    /\ timers' = timers
    /\ rafId' = 0
    /\ frames' = CancelMomentum(frames, rafId)
    /\ keyListeners' = RemoveListener(keyListeners)
    /\ resizeListeners' = RemoveListener(resizeListeners)
    /\ nudgeInterval' = FALSE
    /\ nudgeTimeouts' = 0
    /\ staleTimeouts' = staleTimeouts + nudgeTimeouts
    /\ UNCHANGED <<pointerState, adminState>>
    /\ UNCHANGED <<resolvedTheme, hasFlipped, tlog, itemsLen, activeIndex, slots,
                   videoModal, bp, dragX, dragXRef, dragging, captured, startX, lastX,
                   velocity, hasCapture, crossed, last, isNudging, hasClicked>>

\* The route changes and TattooCarousel unmounts: the cleanups of the
\* overlay's effect (clearTimeout of both timeouts), of the drag engine
\* (cancelMomentum), of the keydown and resize effects (removeEventListener)
\* and of the nudge effect (clearInterval) run, and the component state is
\* gone.  The 2 s timeout of a nudge is not cleared: it stays pending for the
\* instance that is gone.
UnmountCarousel ==
    /\ status = "mounted"
    /\ status' = "unmounted"
    /\ themeTransition' = "null"
    /\ overlays' = <<>>
    /\ timers' = {}
    /\ rafId' = 0
    /\ frames' = CancelMomentum(frames, rafId)
    /\ keyListeners' = RemoveListener(keyListeners)
    /\ resizeListeners' = RemoveListener(resizeListeners)
    /\ nudgeInterval' = FALSE
    /\ nudgeTimeouts' = 0
    /\ staleTimeouts' = staleTimeouts + nudgeTimeouts
    /\ UNCHANGED <<pointerState, adminState>>
    /\ UNCHANGED <<resolvedTheme, hasFlipped, tlog, itemsLen, activeIndex, slots,
                   videoModal, bp, dragX, dragXRef, dragging, captured, startX, lastX,
                   velocity, hasCapture, crossed, last, isNudging, hasClicked>>

\* The route comes back to "/" and a new TattooCarousel mounts: every useState
\* and useRef starts from its initial value, the breakpoint is read from the
\* window, and the effects register the listeners and the nudge interval.
\* The persisted theme mode and the configuration outlive the component.
MountCarousel ==
    /\ status = "unmounted"
    /\ status' = "mounted"
    /\ activeIndex' = 0
    /\ slots' = RenderSlots(0)
    /\ videoModal' = FALSE
    /\ bp' \in {getBreakpoint(w) : w \in Widths}
    /\ dragX' = 0
    /\ dragXRef' = 0
    /\ dragging' = FALSE
    /\ captured' = FALSE
    /\ startX' = 0
    /\ lastX' = 0
    /\ velocity' = 0
    /\ rafId' = 0
    /\ frames' = {}
    /\ hasCapture' = FALSE
    /\ crossed' = FALSE
    /\ last' = [op |-> "mount", idx |-> 0, resid |-> FALSE, off |-> 0, so |-> 0,
                near |-> FALSE]
    /\ themeTransition' = "null"
    /\ overlays' = <<>>
    /\ hasFlipped' = FALSE
    /\ timers' = {}
    /\ keyListeners' = AddListener(keyListeners)
    /\ resizeListeners' = AddListener(resizeListeners)
    /\ isNudging' = FALSE
    /\ hasClicked' = FALSE
    /\ nudgeInterval' = TRUE
    /\ nudgeTimeouts' = 0
    /\ dragOwner' = 0
    /\ UNCHANGED <<itemsLen, resolvedTheme, tlog, staleTimeouts, eventPointer,
                   adminState>>

\* ------------------------------------------------------------------ idle nudge
\* Variant: a render that runs the effect keyed on activeIndex every time.
RenderRunsIndexEffect ==
    /\ slots' = RenderSlots(activeIndex)
    /\ activeIndex' = activeIndex
    /\ dragX' = 0
    /\ dragXRef' = 0
    /\ rafId' = 0
    /\ frames' = CancelMomentum(frames, rafId)
    /\ timers' = RerenderOverlay

\* A render of TattooCarousel caused by a state other than activeIndex and
\* dragX: the cards keep their slots, the effects keyed on activeIndex and on
\* dragX do not run, and a mounted overlay gets a new onComplete.
RenderSameIndex ==
    /\ slots' = RenderSlots(activeIndex)
    /\ activeIndex' = activeIndex
    /\ dragX' = dragX
    /\ dragXRef' = dragXRef
    /\ rafId' = rafId
    /\ frames' = frames
    /\ timers' = RerenderOverlay

\* The callback of the 30 s interval.  The 2 s timeout of the nudge before
\* it has fired by then.
NudgeFire ==
    /\ status = "mounted"
    /\ nudgeInterval
    /\ nudgeTimeouts = 0
    /\ IF hasClicked
         THEN UNCHANGED vars
         ELSE /\ isNudging' = TRUE
              /\ nudgeTimeouts' = nudgeTimeouts + 1
              /\ RenderSameIndex
              /\ UNCHANGED <<last, status, itemsLen, videoModal, bp, dragging, captured,
                             startX, lastX, velocity, hasCapture, crossed,
                             themeState, windowState, hasClicked, nudgeInterval,
                             staleTimeouts, pointerState, adminState>>

\* The 2 s timeout of a nudge: setIsNudging(false)
NudgeEnd ==
    /\ status = "mounted"
    /\ nudgeTimeouts > 0
    /\ nudgeTimeouts' = nudgeTimeouts - 1
    /\ isNudging' = FALSE
    /\ RenderSameIndex
    /\ UNCHANGED <<last, status, itemsLen, videoModal, bp, dragging, captured,
                   startX, lastX, velocity, hasCapture, crossed,
                   themeState, windowState, hasClicked, nudgeInterval,
                   staleTimeouts, pointerState, adminState>>

\* A click on the logo (desktop) or on the menu button (below desktop):
\* hasClickedRef.current = true; the menu button also toggles the menu, which
\* renders the carousel again.
HeaderClick ==
    /\ status = "mounted"
    /\ ~videoModal
    /\ hasClicked' = TRUE
    /\ timers' = IF bp # "desktop" THEN RerenderOverlay ELSE timers
    /\ UNCHANGED <<status, itemsLen, activeIndex, slots, videoModal, bp, dragX,
                   dragXRef, dragging, captured, startX, lastX, velocity, rafId,
                   frames, hasCapture, crossed, last, themeState, windowState,
                   isNudging, nudgeInterval, nudgeTimeouts, staleTimeouts,
                   pointerState, adminState>>

\* The 2 s timeout of a nudge whose instance has unmounted: its
\* setIsNudging(false) acts on no mounted component.
StaleNudgeEnd ==
    /\ staleTimeouts > 0
    /\ staleTimeouts' = staleTimeouts - 1
    /\ UNCHANGED <<status, itemsLen, activeIndex, slots, videoModal, bp, dragX,
                   dragXRef, dragging, captured, startX, lastX, velocity, rafId,
                   frames, hasCapture, crossed, last, themeState, timers,
                   windowState, isNudging, hasClicked, nudgeInterval,
                   nudgeTimeouts, pointerState, adminState>>

\* ------------------------------------------------------------ a second pointer
\* The surface's handlers get the events of every pointer on it: a second
\* finger that touches the surface while a drag is in progress.
SecondPointerDown ==
    /\ status = "mounted"
    /\ ~videoModal
    /\ dragging
    /\ \E x \in PointerXs, onLink \in BOOLEAN :
         HandlePointerDown(x, onLink, 0, 2)

SecondPointerMove ==
    /\ status = "mounted"
    /\ dragging
    /\ \E x \in PointerXs, dt \in DtSet, throws \in BOOLEAN :
         HandlePointerMove(x, dt, throws, 2)

SecondPointerUp ==
    /\ status = "mounted"
    /\ dragging
    /\ \E x \in PointerXs : HandlePointerUp(x, 2)

\* ------------------------------------------------------------------ admin page
\* how many cards the admin adds before saving
MaxAdds == 2

\* no pending image
NoImages == [k \in {} |-> 0]

\* {...prev, [key]: value}
Put(f, k, v) == [j \in DOMAIN f \cup {k} |-> IF j = k THEN v ELSE f[j]]

\* delete f[key]
Delete(f, k) == [j \in DOMAIN f \ {k} |-> f[j]]

\* updateCard(index, 'bg', value), index counted from 0
updateCard(cards, index, bg) == [cards EXCEPT ![index + 1].bg = bg]

\* cards.filter((_, i) => i !== index), index counted from 0
FilterOut(cards, index) ==
    [i \in 1 .. (Len(cards) - 1) |-> IF i <= index THEN cards[i] ELSE cards[i + 1]]

\* the save API: for every key card_bg_<idx> with config.cards[idx] present,
\* config.cards[idx].bg = the uploaded file
ApplyImages(cards, images) ==
    [i \in 1 .. Len(cards) |->
        IF (i - 1) \in DOMAIN images THEN Card(cards[i].id, images[i - 1])
        ELSE cards[i]]

\* addCard: a card with id Date.now() is appended
AddCard ==
    /\ status # "mounted"
    /\ nextCardId <= itemsLen + MaxAdds
    /\ cfgCards' = Append(cfgCards, Card(nextCardId, 0))
    /\ nextCardId' = nextCardId + 1
    /\ cfgDirty' = TRUE
    /\ UNCHANGED <<pendingImages, carouselVars, themeState, timers>>

\* removeCard(index)
RemoveCard ==
    /\ status # "mounted"
    /\ \E index \in 0 .. (Len(cfgCards) - 1) :
         /\ cfgCards' = FilterOut(cfgCards, index)
         /\ pendingImages' = Delete(pendingImages, index)
    /\ cfgDirty' = TRUE
    /\ UNCHANGED <<nextCardId, carouselVars, themeState, timers>>

\* handleImageUpload(e, `card_bg_${idx}`) and the reader's onloadend: the
\* picture chosen for the card shown at idx is kept pending under the index,
\* and previewed as the card's bg.
HandleImageUpload ==
    /\ status # "mounted"
    /\ \E idx \in 0 .. (Len(cfgCards) - 1) :
         LET picture == cfgCards[idx + 1].id
         IN  /\ pendingImages' = Put(pendingImages, idx, picture)
             /\ cfgCards' = updateCard(cfgCards, idx, picture)
    /\ cfgDirty' = TRUE
    /\ UNCHANGED <<nextCardId, carouselVars, themeState, timers>>

\* handleSave with edits to save: saveConfig posts local and pendingImages,
\* the save API applies the images and writes config.json, and the page
\* reloads with what was written.
HandleSave ==
    /\ status # "mounted"
    /\ cfgDirty
    /\ cfgCards' = ApplyImages(cfgCards, pendingImages)
    /\ pendingImages' = NoImages
    /\ cfgDirty' = FALSE
    /\ UNCHANGED <<nextCardId, carouselVars, themeState, timers>>

\* The drag engine and the index navigation, at the breakpoint of the first
\* render and with no video overlay.
Next ==
    \/ KeyDown
    \/ ArrowClick
    \/ CardClick
    \/ PaginationClick
    \/ PointerDown
    \/ PointerDownOnControl
    \/ PointerMove
    \/ PointerUp
    \/ PointerCancel
    \/ Tick

Spec == Init /\ [][Next]_vars

\* The whole carousel: also viewport resizes and the video overlay.
FullNext ==
    \/ Next
    \/ OpenVideo
    \/ CloseVideo
    \/ Resize

FullSpec == Init /\ [][FullNext]_vars

\* The drag engine alone, with animation frames being delivered: a requested
\* frame that is not cancelled is eventually run.
CoastNext ==
    \/ PointerDown
    \/ PointerMove
    \/ PointerUp
    \/ PointerCancel
    \/ Tick

FairSpec == Init /\ [][CoastNext]_vars /\ WF_vars(Tick)

\* The theme transition with the carousel at rest: the toggle, the overlay's
\* timeouts, the passing of time, renders of the carousel caused by the video
\* overlay, and the unmount of the carousel.
ThemeNext ==
    \/ TriggerThemeSwitch
    \/ FlipTimer
    \/ CompleteTimer
    \/ Advance
    \/ OpenVideo
    \/ CloseVideo
    \/ UnmountCarousel

ThemeSpec == Init /\ [][ThemeNext]_vars

\* A theme transition left to itself: the toggle, the timeouts and time.
TimelineNext ==
    \/ TriggerThemeSwitch
    \/ FlipTimer
    \/ CompleteTimer
    \/ Advance

TimelineSpec == Init /\ [][TimelineNext]_vars

\* The controller with the drag engine at rest: keys, arrows, pagination, the
\* video overlay and viewport resizes.
ShellNext ==
    \/ KeyDown
    \/ ArrowClick
    \/ PaginationClick
    \/ OpenVideo
    \/ CloseVideo
    \/ Resize

ShellSpec == Init /\ [][ShellNext]_vars

\* The life cycle of the carousel: keys, the video overlay and resizes while
\* it is mounted, the unmount on a route change and the next mount.
LifecycleNext ==
    \/ KeyDown
    \/ OpenVideo
    \/ CloseVideo
    \/ Resize
    \/ UnmountCarousel
    \/ MountCarousel

LifecycleSpec == Init /\ [][LifecycleNext]_vars

\* The drag engine with the idle nudge of the header running beside it.
NudgeNext ==
    \/ CoastNext
    \/ NudgeFire
    \/ NudgeEnd
    \/ HeaderClick

NudgeSpec == Init /\ [][NudgeNext]_vars

\* A theme transition while the keyboard keeps changing the index: time
\* passes, and a timeout that is due fires.
BusyNext ==
    \/ TriggerThemeSwitch
    \/ FlipTimer
    \/ CompleteTimer
    \/ Advance
    \/ AdvanceLate
    \/ KeyDown

BusySpec ==
    /\ Init
    /\ [][BusyNext]_vars
    /\ WF_vars(Advance)
    /\ WF_vars(AdvanceLate)
    /\ WF_vars(FlipTimer)
    /\ WF_vars(CompleteTimer)

\* The drag engine and the unmount of the carousel.
TeardownNext ==
    \/ CoastNext
    \/ UnmountCarousel

TeardownSpec == Init /\ [][TeardownNext]_vars

\* What the carousel scheduled, and its teardown: the nudge, the theme
\* transition and the route change, with the carousel otherwise at rest.
CleanupNext ==
    \/ NudgeFire
    \/ NudgeEnd
    \/ HeaderClick
    \/ TriggerThemeSwitch
    \/ FlipTimer
    \/ CompleteTimer
    \/ Advance
    \/ UnmountCarousel
    \/ StaleNudgeEnd

CleanupSpec == Init /\ [][CleanupNext]_vars

\* The drag engine with two pointers on the surface.
TouchNext ==
    \/ CoastNext
    \/ SecondPointerDown
    \/ SecondPointerMove
    \/ SecondPointerUp

TouchSpec == Init /\ [][TouchNext]_vars

\* The admin page: the route changes to /config and the cards are edited
\* and saved.
ConfigNext ==
    \/ UnmountCarousel
    \/ AddCard
    \/ RemoveCard
    \/ HandleImageUpload
    \/ HandleSave

ConfigSpec == Init /\ [][ConfigNext]_vars

\* The index navigation at every viewport width: keys, arrows, cards and
\* pagination dots.
NavNext ==
    \/ KeyDown
    \/ ArrowClick
    \/ CardClick
    \/ PaginationClick
    \/ Resize

NavSpec == Init /\ [][NavNext]_vars

\* ==================================================================== claims
UpOps == {"up-tap", "up-fast", "up-slow"}
StopOps == {"tick-snap", "tick-died"}
TickOps == {"tick-snap", "tick-died", "tick-run"}

\* one position forward for a leftward (negative) offset, one back otherwise
StepToward(idx, off) == IF off < 0 THEN (idx + 1) % N ELSE (idx - 1 + N) % N

Min(a, b) == IF a < b THEN a ELSE b

\* C1: after any sequence of key presses, arrow, card and pagination clicks,
\* drag releases and momentum ticks, activeIndex is an index in [0, N).
C1_IndexInRange == activeIndex \in 0 .. (N - 1)

\* C1 witness: a momentum snap stepped back from index 0 and wrapped to N - 1.
C1_Witness ==
    /\ last.op = "tick-snap"
    /\ N = 3
    /\ last.idx = 0
    /\ activeIndex = 2

\* C2 (as claimed): every rendered slot lies in (-ceil(N/2), floor(N/2)] and the
\* active card has slot 0.
C2_SlotHalfOpenRange ==
    status = "mounted" =>
        /\ \A i \in DOMAIN slots :
              /\ slots[i] > -((N + 1) \div 2)
              /\ slots[i] <= N \div 2
        /\ slots[activeIndex] = 0

\* C3: every rendered slot is congruent to i - activeIndex modulo N and its
\* magnitude is the circular distance min(|i - a|, N - |i - a|).
C3_SlotShortestPath ==
    \A i \in DOMAIN slots :
        /\ (slots[i] - (i - activeIndex)) % N = 0
        /\ Abs(slots[i]) = Min(Abs(i - activeIndex), N - Abs(i - activeIndex))

\* C3 witness: with three cards and the first active, the last card wraps to
\* the left neighbour slot.
C3_Witness ==
    /\ status = "mounted"
    /\ N = 3
    /\ activeIndex = 0
    /\ slots[2] = -1

\* C4 (as claimed): a gesture released within 5 px of its start point changes
\* activeIndex neither at the release nor through the coast the release
\* started, and dragX is 0 once the gesture and its coast are over.
C4_DeadzoneRelease ==
    (last.op \in UpOps \cup TickOps /\ last.near) =>
        /\ activeIndex = last.idx
        /\ (frames = {} => dragX = 0)

\* C5: a gesture none of whose moves exceeded the deadzone never acquires the
\* pointer capture (the capture is acquired only by a move beyond the
\* deadzone), starts no coast, leaves activeIndex alone and ends with
\* dragX = 0, also when its pointer-down interrupted a coast.
C5_NonCapturingGesture ==
    /\ [][(~hasCapture /\ hasCapture') => crossed']_vars
    /\ []((dragging /\ ~crossed) => frames = {})
    /\ []((last.op \in UpOps /\ ~crossed) =>
             /\ last.op = "up-tap"
             /\ frames = {}
             /\ activeIndex = last.idx
             /\ dragX = 0)

\* C5 witness: the pointer went down on a coast that had left an offset, moved
\* 3 px and was released.
C5_Witness ==
    /\ last.op = "up-tap"
    /\ last.resid
    /\ Abs(last.off) = 3
    /\ ~crossed

\* C6: a captured drag released with |velocity| <= 2 steps activeIndex by one
\* (forward for a leftward displacement, back for a rightward one) when the
\* displacement exceeds 25% of sideOffset, and leaves it unchanged otherwise;
\* either way dragX is 0 and no coast starts.
C6_SlowRelease ==
    (last.op \in UpOps /\ captured /\ Abs(velocity) <= 2 * Scale) =>
        /\ last.op = "up-slow"
        /\ dragX = 0
        /\ frames = {}
        /\ activeIndex = IF 100 * Abs(last.off) > 25 * last.so
                           THEN StepToward(last.idx, last.off)
                           ELSE last.idx

\* C6 witness: three cards, a slow release 80 px to the left at sideOffset 220
\* moved the index forward by one.
C6_Witness ==
    /\ last.op = "up-slow"
    /\ N = 3
    /\ last.off = -80
    /\ last.so = 220
    /\ activeIndex = (last.idx + 1) % 3

\* C7 (as claimed): a coast that stops at the 35% threshold leaves activeIndex
\* exactly one position away (circularly) from where it was.
C7_SnapMovesOne ==
    last.op = "tick-snap" =>
        activeIndex \in {(last.idx + 1) % N, (last.idx - 1 + N) % N}

\* C8: a coast that stops because the velocity fell below 0.4 has an offset of
\* at most 35% of sideOffset; it steps activeIndex by one in the offset's
\* direction when the offset exceeds 25% of sideOffset and leaves it otherwise.
C8_VelocityStop ==
    last.op = "tick-died" =>
        /\ 100 * Abs(last.off) <= 35 * last.so * Scale
        /\ activeIndex = IF 100 * Abs(last.off) > 25 * last.so * Scale
                           THEN StepToward(last.idx, last.off)
                           ELSE last.idx

\* C8 witness: three cards, a coast died to the left between 25% and 35% of
\* sideOffset and moved the index forward.
C8_Witness ==
    /\ last.op = "tick-died"
    /\ N = 3
    /\ last.off < 0
    /\ 100 * Abs(last.off) > 25 * last.so * Scale
    /\ activeIndex = (last.idx + 1) % 3

\* C9: after either stop of a coast dragX is 0, no animation frame is pending
\* and no drag is in progress.
C9_StopIsIdle ==
    last.op \in StopOps =>
        /\ dragX = 0
        /\ frames = {}
        /\ ~dragging

\* C9 witness: a coast with a non-zero offset stopped on the velocity condition
\* without changing the index.
C9_Witness ==
    /\ last.op = "tick-died"
    /\ last.resid
    /\ activeIndex = last.idx
    /\ N > 1

\* C10: every tick that goes on shrinks |velocity| and keeps its sign, and with
\* frames being delivered every coast ends: a pending frame leads to none.
C10_CoastTerminates ==
    /\ [][(frames # {} /\ frames' # {} /\ frames' # frames) =>
            \A f \in frames, g \in frames' :
                /\ Abs(g.vel) < Abs(f.vel)
                /\ (g.vel > 0) = (f.vel > 0)]_vars
    /\ (frames # {}) ~> (frames = {})

\* C10 witness: a coast ran for more than one tick and then stopped on the
\* velocity condition.
C10_Witness ==
    /\ last.op = "tick-died"
    /\ last.resid
    /\ frames = {}
    /\ Abs(velocity) > 2 * Scale

NavOps == {"key-left", "key-right", "arrow", "card", "page"}

\* C11 (as claimed): after any pointer-down the surface received while a
\* coast was in flight, the frame of that coast is no longer pending, so none
\* of its ticks runs afterwards.
C11_PointerDownCancels ==
    (last.op \in {"down", "down-ignored"} /\ last.off > 0) => frames = {}

\* C11 (amended): a primary-button pointer-down whose target is not inside a
\* button or a link cancels the coast in flight before the drag starts: it
\* leaves no frame pending and rafId at 0, with the drag in progress.
C11_DragStartCancels ==
    last.op = "down" =>
        /\ frames = {}
        /\ rafId = 0
        /\ dragging

\* C11 witness: a pointer-down started a drag on a coast that had a frame
\* pending and had already moved the strip.
C11_Witness ==
    /\ last.op = "down"
    /\ last.off = 1
    /\ last.resid
    /\ dragX # 0

\* C12: every step that changes activeIndex leaves dragX at 0 and no frame
\* pending (rafId cleared), whichever handler made the change.
C12_IndexChangeResets ==
    [][activeIndex' # activeIndex =>
         /\ dragX' = 0
         /\ frames' = {}
         /\ rafId' = 0]_vars

\* C12 witness: a key, arrow, card or pagination step changed the index while
\* a coast was under way with a non-zero offset, and the coast is gone.
C12_Witness ==
    /\ last.op \in NavOps
    /\ last.resid
    /\ ~dragging
    /\ activeIndex # last.idx
    /\ dragX = 0
    /\ frames = {}

\* C13: no frame is pending while a drag is in progress, at most one frame is
\* pending at any time, and a frame appears where none was only by the fast
\* release (|velocity| > 2) of a captured drag, which ends the drag.
C13_EngineMachine ==
    /\ [](dragging => frames = {})
    /\ [](Cardinality(frames) <= 1)
    /\ [][(frames = {} /\ frames' # {}) =>
            /\ dragging /\ ~dragging'
            /\ captured
            /\ Abs(velocity) > 2 * Scale
            /\ last'.op = "up-fast"]_vars

\* C13 witness: a coast is under way after a fast release, the drag over.
C13_Witness ==
    /\ last.op = "tick-run"
    /\ Cardinality(frames) = 1
    /\ ~dragging
    /\ captured

\* C14 (as claimed): while the carousel stays mounted, setTheme runs exactly
\* once per transition, 350 ms after the trigger, and leaves the persisted
\* mode at the target.
C14_FlipAt350 ==
    tlog.started =>
        /\ tlog.flips <= 1
        /\ (tlog.flips = 1) => (tlog.flipAt = 350 /\ resolvedTheme = tlog.target)
        /\ (status = "mounted" /\ tlog.age > 350) => (tlog.flips = 1)

\* C15: an unmounted overlay has no timeout pending, and once the carousel is
\* unmounted neither setTheme nor onComplete is invoked and the persisted mode
\* stays as it is.
C15_UnmountCancels ==
    /\ [](overlays = <<>> => timers = {})
    /\ [][status = "unmounted" =>
            /\ resolvedTheme' = resolvedTheme
            /\ tlog'.flips = tlog.flips
            /\ tlog'.completions = tlog.completions]_vars

\* C15 witness: the carousel was unmounted before the flip, and the time of
\* the flip has passed without a setTheme call.
C15_Witness ==
    /\ status = "unmounted"
    /\ tlog.started
    /\ tlog.flips = 0
    /\ tlog.age > 350
    /\ resolvedTheme # tlog.target

\* C16 (as claimed): a transition left to run with the carousel mounted calls
\* onComplete 1600 ms after its trigger, and the transition state is null
\* from then on.
C16_CompleteAt1600 ==
    tlog.started =>
        /\ (tlog.doneAt # -1) => (tlog.doneAt = 1600 /\ themeTransition = "null")
        /\ (status = "mounted" /\ tlog.age > 1600) => (tlog.doneAt # -1)

\* C17: at most one overlay instance is mounted, it is mounted exactly while a
\* transition state exists, and at most one flip timeout and one cleanup
\* timeout are pending, also when the toggle is used during a transition.
C17_OneTransition ==
    /\ Len(overlays) <= 1
    /\ (status = "mounted") => ((overlays # <<>>) <=> (themeTransition # "null"))
    /\ Cardinality({t \in timers : t.kind = "flip"}) <= 1
    /\ Cardinality({t \in timers : t.kind = "cleanup"}) <= 1

\* C17 witness: the toggle was used again while a transition was running.
C17_Witness ==
    /\ tlog.retriggered
    /\ tlog.age > 0
    /\ Len(overlays) = 1
    /\ themeTransition # "null"

\* C18: after a resize to width w the breakpoint is mobile for w < 640, tablet
\* for 640 <= w < 1180 and desktop for w >= 1180; 639 is mobile, 640 and 1179
\* are tablet, 1180 is desktop.
C18_BreakpointBoundaries ==
    last.op = "resize" =>
        /\ bp = IF last.off < 640 THEN "mobile"
                ELSE IF last.off < 1180 THEN "tablet"
                ELSE "desktop"
        /\ (last.off = 639) => (bp = "mobile")
        /\ (last.off = 640) => (bp = "tablet")
        /\ (last.off = 1179) => (bp = "tablet")
        /\ (last.off = 1180) => (bp = "desktop")

\* C18 witness: a resize to exactly 1180 px gave the desktop layout.
C18_Witness ==
    /\ last.op = "resize"
    /\ last.off = 1180
    /\ bp = "desktop"
    /\ sideOffset = 340

\* C19 (as claimed): the sideOffset a release or a tick decided on is the one
\* of the current breakpoint, and the tick of every pending frame will use the
\* current breakpoint's sideOffset.
C19_NoStaleLayout ==
    /\ (last.op \in {"up-fast", "up-slow"} \cup TickOps) => (last.so = sideOffset)
    /\ \A f \in frames : f.so = sideOffset

KeyOps == {"key-left", "key-right"}

\* C20: an ArrowRight keydown leaves activeIndex at (a + 1) mod N and an
\* ArrowLeft keydown at (a - 1 + N) mod N, with the slots of all cards
\* recomputed around the new index (N = 4, a = 0, ArrowRight: index 1 and
\* slots -1, 0, 1, 2); while a video overlay is open no key changes
\* activeIndex.
C20_KeyNavigation ==
    /\ []((last.op = "key-right") => (activeIndex = (last.idx + 1) % N))
    /\ []((last.op = "key-left") => (activeIndex = (last.idx - 1 + N) % N))
    /\ []((last.op \in KeyOps) =>
            /\ slots[activeIndex] = 0
            /\ \A i \in DOMAIN slots :
                  /\ (slots[i] - (i - activeIndex)) % N = 0
                  /\ 2 * Abs(slots[i]) <= N)
    /\ []((last.op = "key-right" /\ N = 4 /\ last.idx = 0) =>
            (activeIndex = 1 /\ slots = (0 :> -1 @@ 1 :> 0 @@ 2 :> 1 @@ 3 :> 2)))
    /\ [](<<getSlot(0, 1, 4), getSlot(1, 1, 4), getSlot(2, 1, 4), getSlot(3, 1, 4)>>
            = <<-1, 0, 1, 2>>)
    /\ [][videoModal => (activeIndex' = activeIndex)]_vars

\* C20 witness: with three cards, ArrowLeft at index 0 wrapped to index 2 and
\* the first card became the right neighbour.
C20_Witness ==
    /\ last.op = "key-left"
    /\ N = 3
    /\ last.idx = 0
    /\ activeIndex = 2
    /\ slots[0] = 1
    /\ ~videoModal

\* C21: while the carousel is mounted exactly one keydown listener and exactly
\* one resize listener are registered, also after renders that re-create the
\* keydown handler and after an unmount followed by a new mount, so a key
\* press moves the index by a single step; while it is not mounted none is
\* registered.
C21_OneListenerEach ==
    /\ (status = "mounted") => (keyListeners = 1 /\ resizeListeners = 1)
    /\ (status # "mounted") => (keyListeners = 0 /\ resizeListeners = 0)
    /\ (last.op \in KeyOps) =>
          activeIndex \in {(last.idx + 1) % N, (last.idx - 1 + N) % N}

\* C21 witness: the carousel was unmounted and mounted again, and opening a
\* video then re-created the keydown handler.
C21_Witness ==
    /\ status = "mounted"
    /\ last.op = "mount"
    /\ videoModal
    /\ keyListeners = 1
    /\ resizeListeners = 1

\* C22: the item count N used by the index and slot arithmetic is at least 1:
\* it is the number of items, or 1 when there is none, and with no item
\* activeIndex stays 0.
C22_CountNeverZero ==
    /\ N >= 1
    /\ (itemsLen > 0) => (N = itemsLen)
    /\ (itemsLen = 0) => (N = 1 /\ activeIndex = 0 /\ (activeIndex + 1) % N = 0)

\* C22 witness: the configuration has no card and N is 1.
C22_Witness ==
    /\ itemsLen = 0
    /\ DOMAIN slots = {}
    /\ N = 1
    /\ activeIndex = 0

\* C23 (as claimed): with an empty item list the render reaches no error
\* state.
C23_EmptyListRenders == (itemsLen = 0) => (status # "error")

\* C24: the callback of the 30 s interval and the 2 s timeout that ends a
\* nudge change only the nudge: activeIndex, dragX, the drag and coast state
\* and the persisted theme mode stay as they are, and a nudge starts only
\* while the logo or the menu button has not been clicked.
C24_NudgeIsInert ==
    /\ [][(isNudging' # isNudging \/ nudgeTimeouts' # nudgeTimeouts) =>
            UNCHANGED <<activeIndex, dragX, dragXRef, dragging, captured, startX,
                        lastX, velocity, rafId, frames, hasCapture,
                        resolvedTheme>>]_vars
    /\ [][(~isNudging /\ isNudging') => (~hasClicked /\ ~hasClicked')]_vars

\* C24 witness: a nudge started by the interval is showing while a coast is
\* under way with a non-zero offset, and the coast's frame is still pending.
C24_Witness ==
    /\ last.op = "tick-run"
    /\ isNudging
    /\ nudgeTimeouts = 1
    /\ frames # {}
    /\ dragX # 0
    /\ ~dragging

\* C25 (as claimed): the capture is held only while the drag whose move
\* exceeded the deadzone is in progress, and it is released once a pointer-up
\* or a pointer-cancel was handled.
C25_CaptureLifetime ==
    /\ hasCapture => (dragging /\ captured /\ crossed)
    /\ (last.op \in UpOps) => ~hasCapture

\* C26: once the carousel is unmounted no animation frame is pending, also
\* when a coast was in flight, and nothing writes dragX or activeIndex or runs
\* a handler of the drag engine afterwards.
C26_TeardownCancelsCoast ==
    /\ [](status = "unmounted" => (frames = {} /\ rafId = 0))
    /\ [][status = "unmounted" =>
            /\ dragX' = dragX
            /\ activeIndex' = activeIndex
            /\ last' = last]_vars

\* C26 witness: the carousel was unmounted right after a tick that had
\* requested another frame, with the strip displaced.
C26_Witness ==
    /\ status = "unmounted"
    /\ last.op = "tick-run"
    /\ dragX # 0
    /\ frames = {}

\* C27: a drag starts only by a primary-button pointer-down whose target is
\* not inside a button or a link; a pointer-down that is ignored leaves the
\* drag engine's state as it is, and while no drag is in progress no
\* pointer-move and no pointer-up changes dragX or activeIndex (only a tick of
\* a coast or the index navigation does).
C27_IgnoredPointerDown ==
    /\ []((last.op = "down") => (last.so = 0 /\ ~last.near))
    /\ [][(~dragging /\ dragging') =>
            (last'.op = "down" /\ last'.so = 0 /\ ~last'.near)]_vars
    /\ [][(last'.op = "down-ignored") =>
            UNCHANGED <<dragging, captured, startX, lastX, velocity, rafId, frames,
                        dragX, dragXRef, activeIndex, hasCapture>>]_vars
    /\ [][(~dragging /\ (dragX' # dragX \/ activeIndex' # activeIndex)) =>
            (last'.op \in TickOps \cup NavOps)]_vars

\* C27 witness: a pointer-down on a button or with a secondary button arrived
\* during a coast; no drag is in progress and the coast goes on.
C27_Witness ==
    /\ last.op = "down-ignored"
    /\ ~dragging
    /\ frames # {}
    /\ dragX # 0

\* the nearest integer to -off / (so * Scale), halves toward +infinity
SnapRound(off, so) == ((2 * (-off)) + so * Scale) \div (2 * so * Scale)

\* C28: a coast that stops at the 35% threshold leaves activeIndex at
\* (previous + round(-offset / sideOffset)) mod N, a value of [0, N); the wrap
\* gives the non-negative remainder also for negative sums and for step counts
\* beyond N.
C28_SnapIndex ==
    /\ (last.op = "tick-snap") =>
          /\ activeIndex = (last.idx + SnapRound(last.off, last.so)) % N
          /\ activeIndex \in 0 .. (N - 1)
    /\ \A a \in 0 .. (N - 1), k \in (-(2 * N + 1)) .. (2 * N + 1) :
          /\ WrapIndex(a + k, N) = (a + k) % N
          /\ WrapIndex(a + k, N) \in 0 .. (N - 1)

\* C28 witness: with three cards a snap to the right at index 0 gave a
\* negative sum, which wrapped to index 2.
C28_Witness ==
    /\ last.op = "tick-snap"
    /\ N = 3
    /\ last.idx = 0
    /\ SnapRound(last.off, last.so) = -1
    /\ activeIndex = 2
    /\ dragX = 0

\* C29: after every pointer-move that changed anything the drag had crossed
\* the deadzone and dragX is clientX - startX, also when the pointer is back
\* within 5 px of its start; a move before the crossing changes nothing; a
\* move with no elapsed time sets dragX and leaves velocity as it was.
C29_MoveTracksPointer ==
    /\ []((last.op = "move") =>
            /\ captured
            /\ crossed
            /\ dragX = last.off * Scale
            /\ dragX = (lastX - startX) * Scale
            /\ dragXRef = dragX)
    /\ [][(last'.op = "move" /\ last'.so = 0) => (velocity' = velocity)]_vars

\* C29 witness: a captured drag came back to 3 px from its start in a move with
\* no elapsed time: dragX follows, the velocity of the move before remains.
C29_Witness ==
    /\ last.op = "move"
    /\ last.so = 0
    /\ Abs(last.off) = 3
    /\ dragX = last.off * Scale
    /\ Abs(velocity) > 2 * Scale
    /\ captured

\* The layout of n cards around the active card a: sl are their slots, pr
\* their animation props, so and far the side and far offsets.
SlotLayoutOk(sl, pr, a, n, so, far) ==
    /\ {i \in DOMAIN sl : sl[i] = 0} = {a}
    /\ \A i \in DOMAIN sl :
          /\ (pr[i].opacity > 0) <=> (sl[i] \in {-1, 0, 1})
          /\ (sl[i] = 0) => (pr[i].x = 0)
          /\ (sl[i] \in {-1, 1}) => (pr[i].x = sl[i] * so)
          /\ (sl[i] > 1) => (pr[i].x = far /\ pr[i].opacity = 0)
          /\ (sl[i] < -1) => (pr[i].x = -far /\ pr[i].opacity = 0)
    /\ Cardinality({i \in DOMAIN sl : pr[i].opacity > 0}) <= 3
    /\ (n >= 3) =>
          /\ Cardinality({i \in DOMAIN sl : sl[i] = -1}) = 1
          /\ Cardinality({i \in DOMAIN sl : sl[i] = 1}) = 1

\* C30: in every render exactly one card has slot 0 and it is the active one;
\* only the slots -1, 0 and +1 have a non-zero opacity, the neighbours at
\* slot * sideOffset and every other card at sign(slot) * farOffset with
\* opacity 0; so at most three cards are visible, and from three cards on
\* exactly one is in slot -1 and exactly one in slot +1.  The same holds of the
\* slots and props computed for every count up to SlotCheckMax.
C30_SlotLayout ==
    /\ (status = "mounted") =>
          SlotLayoutOk(slots, cardProps, activeIndex, N, sideOffset, farOffset)
    /\ \A n \in 1 .. SlotCheckMax, a \in 0 .. (SlotCheckMax - 1) :
          (a < n) =>
             LET sl == [i \in 0 .. (n - 1) |-> getSlot(i, a, n)]
                 pr == [i \in 0 .. (n - 1) |-> slotProps(sl[i], sideOffset, farOffset)]
             IN  SlotLayoutOk(sl, pr, a, n, sideOffset, farOffset)

\* C30 witness: three cards at the desktop layout after a resize, the last one
\* active: the first card is the right neighbour at +340 px and the second the
\* left neighbour at -340 px.
C30_Witness ==
    /\ last.op = "resize"
    /\ bp = "desktop"
    /\ N = 3
    /\ activeIndex = 2
    /\ slots[0] = 1
    /\ cardProps[0].x = 340
    /\ cardProps[1].x = -340
    /\ cardProps[2].opacity = 100

\* C31 (as claimed): a captured drag released with a displacement beyond 25% of
\* sideOffset changes activeIndex, toward the drag: at once when the release
\* is slow, and at the stop of its coast when the release is fast (here: a
\* release at the point of the last move, with the velocity in the direction
\* of the displacement, whose coast stops at its first tick).
C31_ReleaseBeyondQuarter ==
    /\ []((last.op = "up-slow" /\ 100 * Abs(last.off) > 25 * last.so) =>
            (activeIndex = StepToward(last.idx, last.off)))
    /\ [][(/\ last.op = "up-fast"
           /\ dragX = last.off * Scale
           /\ (velocity > 0) = (dragX > 0)
           /\ 100 * Abs(last.off) > 25 * last.so
           /\ last'.op \in StopOps
           /\ N >= 2) =>
            (activeIndex' # activeIndex)]_vars

\* C32 (as claimed): the persisted mode becomes the target computed by the
\* activation of the toggle that was made last; once that transition has
\* completed (no timeout is pending any more, so nothing can still change the
\* mode) the mode is the target.
C32_ToggleReachesTarget ==
    (status = "mounted" /\ tlog.started /\ tlog.doneAt # -1 /\ timers = {}) =>
        (resolvedTheme = tlog.target)

\* C33 (as claimed): a render of the carousel during a transition, caused by
\* an index change or by the theme flip itself, leaves the pending timeouts
\* of the transition as they are: none is set anew.
C33_RendersKeepDeadlines ==
    [][(/\ themeTransition # "null"
        /\ themeTransition' = themeTransition
        /\ (activeIndex' # activeIndex \/ resolvedTheme' # resolvedTheme)) =>
         (\A t \in timers' : t \in timers)]_vars

\* C34 (as claimed): with time passing and due timeouts firing, a transition
\* that is not triggered again ends, whatever key presses come in between.
C34_TransitionEnds ==
    (themeTransition # "null") ~> (themeTransition = "null" \/ tlog.retriggered)

\* C35 (as claimed): after the carousel is torn down nothing it scheduled is still
\* pending: no nudge interval, no 2 s nudge timeout (of the mounted or of the
\* unmounted instance), no animation frame and no theme transition timer.
C35_TeardownCancelsAll ==
    (status = "unmounted") =>
        /\ ~nudgeInterval
        /\ nudgeTimeouts = 0
        /\ staleTimeouts = 0
        /\ frames = {}
        /\ timers = {}

\* C36 (as claimed): every configuration with at least one card that the admin page can
\* save gives every card index an icon, and the card list renders.
C36_EveryCardHasIcon ==
    (~cfgDirty /\ Len(cfgCards) >= 1) =>
        /\ \A index \in 0 .. (Len(cfgCards) - 1) : index < GeoIconCount
        /\ RenderOutcome(Len(cfgCards)) = "mounted"

\* the handlers a pointer event runs leave one of these in the history
PointerOps == {"down", "move", "up-tap", "up-fast", "up-slow"}

\* C37 (as claimed): while a drag is in progress, an event of a pointer other than the one
\* that started it leaves the drag's start point, dragX, the velocity and the
\* drag itself as they were.
C37_OtherPointerIgnored ==
    [][(/\ dragOwner # 0
        /\ eventPointer' # dragOwner
        /\ last'.op \in PointerOps
        /\ (last' # last \/ eventPointer' # eventPointer)) =>
         UNCHANGED <<startX, dragX, velocity, dragging>>]_vars

\* C38: a click on a card in slot -1 or +1 makes that card the active one,
\* and a click on a card in any other slot leaves the active index as it is:
\* in every render of two or more cards, after every card click, and for the
\* slots of every count from 2 to SlotCheckMax and every active index.
C38_CardClickActivates ==
    /\ (status = "mounted" /\ N >= 2) =>
          \A i \in DOMAIN slots :
             CardTarget(slots[i], activeIndex, N) =
                 IF slots[i] \in {-1, 1} THEN i ELSE activeIndex
    /\ (last.op = "card") =>
          /\ slots[activeIndex] = 0
          /\ getSlot(activeIndex, last.idx, N) \in {-1, 1}
    /\ \A n \in 2 .. SlotCheckMax, a \in 0 .. (SlotCheckMax - 1),
          i \in 0 .. (SlotCheckMax - 1) :
          (a < n /\ i < n) =>
             CardTarget(getSlot(i, a, n), a, n) =
                 IF getSlot(i, a, n) \in {-1, 1} THEN i ELSE a

\* C38 witness: three cards, the first active; a click on the last card, which
\* is in slot -1, made it the active one.
C38_Witness ==
    /\ last.op = "card"
    /\ N = 3
    /\ last.idx = 0
    /\ activeIndex = 2
    /\ slots[2] = 0

\* C39 (as claimed): a save applies each pending background picture to the
\* card it was chosen for and changes the background of no other card.
C39_PendingImageGoesToItsCard ==
    [][(cfgDirty /\ ~cfgDirty') =>
         \A i \in 1 .. Len(cfgCards') :
            /\ (cfgCards'[i].bg # cfgCards[i].bg) =>
                  (cfgCards'[i].bg = cfgCards'[i].id)
            /\ (\E k \in DOMAIN pendingImages :
                     pendingImages[k] = cfgCards[i].id) =>
                  (cfgCards'[i].bg = cfgCards'[i].id)]_vars
====
